---- MODULE Spec2Model ----
(***************************************************************************)
(* Model of the indicator validation scripts:                              *)
(*   modern_indicators/tools/plot_hit_or_miss.py                           *)
(*   modern_indicators/plot_cmma.py                                        *)
(*   scripts/export_dataset_to_questdb.py                                  *)
(*                                                                         *)
(* Python lists and numpy arrays are 0-based; sequences here are 1-based,  *)
(* so the element the code addresses as a[i] is a[i + 1] below.  Indices   *)
(* stored in program state (ohlcv_map values, bar_idx, valid_indices)      *)
(* keep the code's 0-based value.                                          *)
(***************************************************************************)
EXTENDS Integers, Sequences, FiniteSets, TLC

VARIABLES
    \* align_data: its two arguments, its locals and its position
    ohlcv, csv_data, ohlcv_map, aligned, apc,
    \* extract_computed_values: the lines of output_text, the 0-based position
    \* of the line the loop is at, its locals and its position
    lines, li, in_section, computed_values, epc,
    \* the three record parsers: which one runs, the lines it reads, the 0-based
    \* position of the next line, its locals, the exception it raised, its
    \* position
    pkind, ptext, ppos, pout, pexc, ppc,
    \* the scripts' main(): the script, its position, the paths that exist, the
    \* outcome and the number of calls of each external call, the computed
    \* arrays, the loop index over the indicators, and per indicator the
    \* validity mask, the statistics and what became of its comparison; the
    \* way the process ended
    prog, mpc, files, ext, calls, computed, fi, masks, stats, report, payload,
    exit

alignVars == <<ohlcv, csv_data, ohlcv_map, aligned, apc>>

extractVars == <<lines, li, in_section, computed_values, epc>>

parseVars == <<pkind, ptext, ppos, pout, pexc, ppc>>

mainVars ==
    <<prog, mpc, files, ext, calls, computed, fi, masks, stats, report, payload,
      exit>>

vars == <<alignVars, extractVars, parseVars, mainVars>>

-----------------------------------------------------------------------------
(* Floating point values, by the distinctions the scripts make: NaN         *)
(* (numpy's missing marker), an infinity, or a finite number.               *)

NaN == [kind |-> "nan", val |-> 0]

Inf == [kind |-> "inf", val |-> 1]

Fin(n) == [kind |-> "fin", val |-> n]

\* np.isnan
isnan(x) == x.kind = "nan"

\* np.isfinite
isfinite(x) == x.kind = "fin"

-----------------------------------------------------------------------------
(* Bounds of the alignment model.                                          *)

MaxBars == 3

MaxRows == 2

\* the (date, time) pairs used by the inputs
Keys == {<<20240101, 930>>, <<20240101, 931>>, <<20240102, 930>>}

FieldNames == {"TGT_115", "TGT_315", "TGT_555"}

\* the values one reference row carries in its TGT_115, TGT_315, TGT_555 cells
RowValues ==
    { [TGT_115 |-> Fin(1), TGT_315 |-> Fin(2), TGT_555 |-> Fin(3)],
      [TGT_115 |-> Fin(4), TGT_315 |-> Fin(5), TGT_555 |-> Fin(6)],
      [TGT_115 |-> NaN,    TGT_315 |-> Fin(5), TGT_555 |-> Fin(3)] }

\* the sets of TGT columns the header of the reference input may hold
HeaderColumns ==
    { {"TGT_115", "TGT_315", "TGT_555"}, {"TGT_115", "TGT_555"}, {"TGT_315"} }

SeqsUpTo(S, n) == UNION { [1..k -> S] : k \in 0..n }

\* np.full(n, np.nan)
full(n, v) == [j \in 1..n |-> v]

-----------------------------------------------------------------------------
(* The dict parse_ohlcv returns, restricted to the columns align_data      *)
(* reads: equally long 'date' and 'time' lists.                            *)

OhlcvOf(keys) ==
    [date |-> [j \in 1..Len(keys) |-> keys[j][1]],
     time |-> [j \in 1..Len(keys) |-> keys[j][2]]]

(* The dict parse_tssb_csv returns: 'date' and 'time' hold one entry per   *)
(* accepted row; the list of a TGT column holds one entry per accepted row *)
(* when the column was found in the header and is empty otherwise.         *)

CsvOf(keys, vals, present) ==
    [date    |-> [j \in 1..Len(keys) |-> keys[j][1]],
     time    |-> [j \in 1..Len(keys) |-> keys[j][2]],
     TGT_115 |-> IF "TGT_115" \in present
                 THEN [j \in 1..Len(keys) |-> vals[j].TGT_115] ELSE <<>>,
     TGT_315 |-> IF "TGT_315" \in present
                 THEN [j \in 1..Len(keys) |-> vals[j].TGT_315] ELSE <<>>,
     TGT_555 |-> IF "TGT_555" \in present
                 THEN [j \in 1..Len(keys) |-> vals[j].TGT_555] ELSE <<>>]

-----------------------------------------------------------------------------
(* align_data, first loop: ohlcv_map[(date, time)] = i                     *)

EmptyMap == [k \in {} |-> 0]

MapStoreFirstWins(m, k, v) ==
    IF k \in DOMAIN m THEN m
    ELSE [x \in (DOMAIN m) \cup {k} |-> IF x = k THEN v ELSE m[x]]

\* dict item assignment  m[k] = v
MapStore(m, k, v) ==
    [x \in (DOMAIN m) \cup {k} |-> IF x = k THEN v ELSE m[x]]

RECURSIVE BuildOhlcvMap(_, _, _)
\* for i, (date, time) in enumerate(zip(ohlcv['date'], ohlcv['time'])), from
\* 0-based position i on, starting with map m
BuildOhlcvMap(o, i, m) ==
    IF i >= Len(o.date) \/ i >= Len(o.time) THEN m
    ELSE BuildOhlcvMap(o, i + 1,
                       MapStore(m, <<o.date[i + 1], o.time[i + 1]>>, i))

(* align_data, second loop.                                                *)

\* a[idx] = v on a numpy array (idx 0-based)
ArrayStore(a, idx, v) == [a EXCEPT ![idx + 1] = v]

AlignedCellPositional(a, m, c, i, f) ==
    IF i < Len(c[f]) /\ i < Len(a) THEN ArrayStore(a, i, c[f][i + 1]) ELSE a

AlignedCellKeepFirst(a, m, c, i, f) ==
    IF i < Len(c[f]) /\ isnan(a[m[<<c.date[i + 1], c.time[i + 1]>>] + 1])
    THEN ArrayStore(a, m[<<c.date[i + 1], c.time[i + 1]>>], c[f][i + 1])
    ELSE a

\* if i < len(csv_data[f]): aligned_f[ohlcv_idx] = csv_data[f][i]
AlignedCell(a, m, c, i, f) ==
    IF i < Len(c[f])
    THEN ArrayStore(a, m[<<c.date[i + 1], c.time[i + 1]>>], c[f][i + 1])
    ELSE a

AlignRowCrossed(al, m, c, i) ==
    IF <<c.date[i + 1], c.time[i + 1]>> \in DOMAIN m
    THEN [TGT_115 |-> AlignedCell(al.TGT_115, m, c, i, "TGT_115"),
          TGT_315 |-> AlignedCell(al.TGT_315, m, c, i, "TGT_115"),
          TGT_555 |-> AlignedCell(al.TGT_555, m, c, i, "TGT_555")]
    ELSE al

\* the body of the loop for 0-based row i
AlignRow(al, m, c, i) ==
    IF <<c.date[i + 1], c.time[i + 1]>> \in DOMAIN m
    THEN [TGT_115 |-> AlignedCell(al.TGT_115, m, c, i, "TGT_115"),
          TGT_315 |-> AlignedCell(al.TGT_315, m, c, i, "TGT_315"),
          TGT_555 |-> AlignedCell(al.TGT_555, m, c, i, "TGT_555")]
    ELSE al

RECURSIVE AlignLoop(_, _, _, _)
AlignLoop(al, m, c, i) ==
    IF i >= Len(c.date) \/ i >= Len(c.time) THEN al
    ELSE AlignLoop(AlignRow(al, m, c, i), m, c, i + 1)

\* aligned_115, aligned_315, aligned_555 as returned by align_data(o, c)
align_data(o, c) ==
    LET m == BuildOhlcvMap(o, 0, EmptyMap)
        n == Len(o.date)
    IN  AlignLoop([TGT_115 |-> full(n, NaN), TGT_315 |-> full(n, NaN),
                   TGT_555 |-> full(n, NaN)], m, c, 0)

-----------------------------------------------------------------------------
(* Specification of align_data: inputs as the two parsers return them.     *)

NoAligned == [TGT_115 |-> <<>>, TGT_315 |-> <<>>, TGT_555 |-> <<>>]

\* the variables of the other functions while align_data is the one running
ExtractIdle ==
    /\ lines = <<>>
    /\ li = 0
    /\ in_section = FALSE
    /\ computed_values = EmptyMap
    /\ epc = "off"

NoException == [type |-> "none", cause |-> "none"]

MainIdle ==
    /\ prog = "none"
    /\ mpc = "off"
    /\ files = {}
    /\ ext = <<>>
    /\ calls = <<>>
    /\ computed = <<>>
    /\ fi = 0
    /\ masks = <<>>
    /\ stats = <<>>
    /\ report = <<>>
    /\ payload = <<>>
    /\ exit = <<>>

ParseIdle ==
    /\ pkind = "none"
    /\ ptext = <<>>
    /\ ppos = 0
    /\ pout = <<>>
    /\ pexc = NoException
    /\ ppc = "off"

InitAlign ==
    /\ \E bk \in SeqsUpTo(Keys, MaxBars) : ohlcv = OhlcvOf(bk)
    /\ \E rk \in SeqsUpTo(Keys, MaxRows) :
         \E rv \in [1..Len(rk) -> RowValues] :
           \E present \in HeaderColumns :
             csv_data = CsvOf(rk, rv, present)
    /\ ohlcv_map = EmptyMap
    /\ aligned = NoAligned
    /\ apc = "start"
    /\ ExtractIdle
    /\ ParseIdle
    /\ MainIdle

\* lines 131-134
BuildIndex ==
    /\ apc = "start"
    /\ ohlcv_map' = BuildOhlcvMap(ohlcv, 0, EmptyMap)
    /\ apc' = "indexed"
    /\ UNCHANGED <<ohlcv, csv_data, aligned, extractVars, parseVars, mainVars>>

\* lines 136-152
AlignRows ==
    /\ apc = "indexed"
    /\ aligned' = AlignLoop([TGT_115 |-> full(Len(ohlcv.date), NaN),
                             TGT_315 |-> full(Len(ohlcv.date), NaN),
                             TGT_555 |-> full(Len(ohlcv.date), NaN)],
                            ohlcv_map, csv_data, 0)
    /\ apc' = "done"
    /\ UNCHANGED <<ohlcv, csv_data, ohlcv_map, extractVars, parseVars, mainVars>>

NextAlign == BuildIndex \/ AlignRows

SpecAlign == InitAlign /\ [][NextAlign]_vars

-----------------------------------------------------------------------------
(* Properties of align_data.                                               *)

NBars == Len(ohlcv.date)

NRows == Len(csv_data.date)

BarIdx == 0..(NBars - 1)

RowIdx == 0..(NRows - 1)

BarKey(b) == <<ohlcv.date[b + 1], ohlcv.time[b + 1]>>

RowKey(i) == <<csv_data.date[i + 1], csv_data.time[i + 1]>>

\* field f is present in reference row i
HasField(i, f) == i < Len(csv_data[f])

LastBar(b) == \A b2 \in BarIdx : BarKey(b2) = BarKey(b) => b2 <= b

LastRow(i) == \A i2 \in RowIdx : RowKey(i2) = RowKey(i) => i2 <= i

\* the reference rows whose (date, time) is the key of no bar
Unmatched == { i \in RowIdx : \A b \in BarIdx : BarKey(b) # RowKey(i) }

RECURSIVE KeepSeq(_, _, _)
\* the entries of list s at 0-based positions from i on that are not in drop
KeepSeq(s, drop, i) ==
    IF i >= Len(s) THEN <<>>
    ELSE (IF i \in drop THEN <<>> ELSE <<s[i + 1]>>) \o KeepSeq(s, drop, i + 1)

\* the reference input without the rows in drop
RemoveRows(c, drop) ==
    [date    |-> KeepSeq(c.date, drop, 0),
     time    |-> KeepSeq(c.time, drop, 0),
     TGT_115 |-> KeepSeq(c.TGT_115, drop, 0),
     TGT_315 |-> KeepSeq(c.TGT_315, drop, 0),
     TGT_555 |-> KeepSeq(c.TGT_555, drop, 0)]

\* C1 (as stated): after align_data, for every bar b and every reference row
\* r with the same (date, time), the aligned series of each field present in
\* r holds r's value at position b.index.
C1_AlignAllPairs ==
    apc = "done" =>
        \A b \in BarIdx : \A i \in RowIdx : \A f \in FieldNames :
            (BarKey(b) = RowKey(i) /\ HasField(i, f))
                => aligned[f][b + 1] = csv_data[f][i + 1]

\* C1 (amended): after align_data, for every reference row r that is the last
\* row of the reference input with its (date, time), and the LAST bar b of the
\* primary series with that (date, time), the aligned series of each field
\* present in r holds r's value at position b.index.
C1_AlignLastPairs ==
    apc = "done" =>
        \A b \in BarIdx : \A i \in RowIdx : \A f \in FieldNames :
            (BarKey(b) = RowKey(i) /\ HasField(i, f) /\ LastBar(b) /\ LastRow(i))
                => aligned[f][b + 1] = csv_data[f][i + 1]

C1_Witness ==
    /\ apc = "done"
    /\ \E b \in BarIdx : \E b0 \in BarIdx : \E i \in RowIdx :
         /\ b0 < b /\ BarKey(b0) = BarKey(b) /\ LastBar(b)
         /\ RowKey(i) = BarKey(b) /\ LastRow(i)
         /\ \A f \in FieldNames : HasField(i, f)
         /\ csv_data.TGT_115[i + 1] = Fin(1)
         /\ csv_data.TGT_315[i + 1] = Fin(2)
         /\ aligned.TGT_115[b + 1] = Fin(1)
         /\ aligned.TGT_315[b + 1] = Fin(2)
         /\ aligned.TGT_555[b + 1] = Fin(3)
         /\ isnan(aligned.TGT_115[b0 + 1])

\* C2: every aligned series has length N; a position is non-missing only if
\* some reference row's (date, time) is mapped by the index to that position;
\* removing any set of reference rows that match no bar leaves every aligned
\* series as it is.
C2_KeyBasedOnly ==
    apc = "done" =>
        /\ \A f \in FieldNames : Len(aligned[f]) = NBars
        /\ \A f \in FieldNames : \A p \in BarIdx :
             ~isnan(aligned[f][p + 1]) =>
                 \E i \in RowIdx : /\ RowKey(i) \in DOMAIN ohlcv_map
                                   /\ ohlcv_map[RowKey(i)] = p
        /\ \A drop \in SUBSET Unmatched :
             align_data(ohlcv, RemoveRows(csv_data, drop)) = aligned

C2_Witness ==
    /\ apc = "done"
    /\ NBars >= 2
    /\ \E i \in Unmatched : \E j \in RowIdx :
         /\ i < j
         /\ RowKey(j) \in DOMAIN ohlcv_map
         /\ HasField(j, "TGT_115")
         /\ ohlcv_map[RowKey(j)] # j
         /\ aligned.TGT_115[ohlcv_map[RowKey(j)] + 1] = Fin(4)
         /\ \E p \in BarIdx : isnan(aligned.TGT_115[p + 1])

\* C3: when two reference rows carry the same (date, time) and it matches a
\* bar, the aligned value at that bar's position equals the value of the row
\* that comes later in input order, also when that value is the missing marker.
C3_LaterRowWins ==
    apc = "done" =>
        \A i \in RowIdx : \A j \in RowIdx : \A f \in FieldNames :
            (/\ i < j /\ RowKey(i) = RowKey(j) /\ LastRow(j)
             /\ RowKey(j) \in DOMAIN ohlcv_map /\ HasField(j, f))
                => aligned[f][ohlcv_map[RowKey(j)] + 1] = csv_data[f][j + 1]

C3_Witness ==
    /\ apc = "done"
    /\ \E i \in RowIdx : \E j \in RowIdx :
         /\ i < j /\ RowKey(i) = RowKey(j)
         /\ RowKey(j) \in DOMAIN ohlcv_map
         /\ HasField(j, "TGT_115")
         /\ csv_data.TGT_115[i + 1] = Fin(1)
         /\ isnan(csv_data.TGT_115[j + 1])
         /\ isnan(aligned.TGT_115[ohlcv_map[RowKey(j)] + 1])
         /\ aligned.TGT_315[ohlcv_map[RowKey(j)] + 1] = Fin(5)

\* the 0-based positions of the primary rows that carry (date, time) k
Occurrences(k) == { b \in BarIdx : BarKey(b) = k }

SetMax(S) == CHOOSE x \in S : \A y \in S : y <= x

\* C4: after the (date, time) -> index map is built, a pair that occurs more
\* than once maps to the index of its last occurrence, a pair that occurs once
\* maps to that row's index, and a pair that never occurs is not in the map.
C4_LastOccurrenceWins ==
    apc # "start" =>
        \A k \in Keys :
            IF Occurrences(k) = {}
            THEN k \notin DOMAIN ohlcv_map
            ELSE k \in DOMAIN ohlcv_map /\ ohlcv_map[k] = SetMax(Occurrences(k))

C4_Witness ==
    /\ apc = "indexed"
    /\ \E k \in Keys : \E k1 \in Keys : \E k0 \in Keys :
         /\ Cardinality(Occurrences(k)) = 2
         /\ Cardinality(Occurrences(k1)) = 1
         /\ Occurrences(k0) = {}
         /\ ohlcv_map[k] = 2
         /\ k0 \notin DOMAIN ohlcv_map

-----------------------------------------------------------------------------
(* Text.  A line is the sequence of its whitespace separated tokens        *)
(* (str.split()); `word in line` holds when a token contains the word.     *)

\* the tokens int() accepts, with their values
IntTokens == {"0", "1", "2", "7", "8", "9", "930", "931", "20240101", "20240102"}

IntValue(t) ==
    CASE t = "0" -> 0 [] t = "1" -> 1 [] t = "2" -> 2 [] t = "7" -> 7
      [] t = "8" -> 8 [] t = "9" -> 9 [] t = "930" -> 930 [] t = "931" -> 931
      [] t = "20240101" -> 20240101 [] t = "20240102" -> 20240102

\* int(t): [ok |-> FALSE] stands for the ValueError it raises
ParseInt(t) ==
    IF t \in IntTokens THEN [ok |-> TRUE, val |-> IntValue(t)]
    ELSE [ok |-> FALSE, val |-> 0]

\* float(t): accepts what int() accepts and also "nan" and "inf"
ParseFloat(t) ==
    IF t \in IntTokens THEN [ok |-> TRUE, val |-> Fin(IntValue(t))]
    ELSE IF t = "nan" THEN [ok |-> TRUE, val |-> NaN]
    ELSE IF t = "inf" THEN [ok |-> TRUE, val |-> Inf]
    ELSE [ok |-> FALSE, val |-> NaN]

\* word in token
TokenContains(t, word) == t = word \/ (word = "Up=" /\ t \in {"Up=1", "Up=0"})

\* word in line
InLine(word, line) == \E j \in 1..Len(line) : TokenContains(line[j], word)

-----------------------------------------------------------------------------
(* extract_computed_values(output_text, indicator_name)                    *)

indicator_name == "TGT_115"

\* line 108: indicator_name in line and 'Up=' in line
IsHeader(line) == InLine(indicator_name, line) /\ InLine("Up=", line)

\* line 112: 'Bar' in line and 'Expected' in line
IsDataLine(line) == InLine("Bar", line) /\ InLine("Expected", line)

\* line 124: 'Summary:' in line
IsSummary(line) == InLine("Summary:", line)

\* lines 114-122: the dict after the data line was handled; any exception of
\* the three conversions leaves it as it was
StoreTriple(cv, line) ==
    IF Len(line) >= 4
    THEN IF /\ ParseInt(line[1]).ok
            /\ ParseFloat(line[2]).ok
            /\ ParseFloat(line[3]).ok
         THEN MapStore(cv, ParseInt(line[1]).val, ParseFloat(line[3]).val)
         ELSE cv
    ELSE cv

ScanLineReopening(sec, cv, line) ==
    IF IsHeader(line)
    THEN [in_section |-> TRUE, computed_values |-> cv, brk |-> FALSE]
    ELSE [in_section |-> sec /\ ~IsSummary(line),
          computed_values |-> IF sec /\ IsDataLine(line)
                              THEN StoreTriple(cv, line) ELSE cv,
          brk |-> FALSE]

ScanLineAnywhere(sec, cv, line) ==
    IF IsHeader(line)
    THEN [in_section |-> TRUE, computed_values |-> cv, brk |-> FALSE]
    ELSE [in_section |-> sec,
          computed_values |-> IF IsDataLine(line)
                              THEN StoreTriple(cv, line) ELSE cv,
          brk |-> sec /\ IsSummary(line)]

\* lines 107-125: one pass of the loop body over `line`; brk says that the
\* pass ended in `break`
ScanLine(sec, cv, line) ==
    IF IsHeader(line)
    THEN [in_section |-> TRUE, computed_values |-> cv, brk |-> FALSE]
    ELSE [in_section |-> sec,
          computed_values |-> IF sec /\ IsDataLine(line)
                              THEN StoreTriple(cv, line) ELSE cv,
          brk |-> sec /\ IsSummary(line)]

(* Bounds and inputs of the extractor model.                               *)

MaxLines == 4

LogLines ==
    { <<"TGT_115", "Up=1">>,
      <<"TGT_315", "Up=1">>,
      <<"0", "7", "8", "Bar", "Expected">>,
      <<"1", "7", "8", "Bar", "Expected">>,
      <<"Bar", "0", "Expected", "7">>,
      <<"0", "x", "8", "Bar", "Expected">>,
      <<"0", "Bar", "Expected">>,
      <<"Summary:">>,
      <<"some", "text">>,
      <<"1", "7", "9", "Bar", "Expected", "Summary:">>,
      <<"TGT_115", "Up=1", "Summary:">>,
      <<"1", "7", "inf", "Bar", "Expected", "TGT_115", "Up=0">> }

AlignIdle ==
    /\ ohlcv = OhlcvOf(<<>>)
    /\ csv_data = CsvOf(<<>>, <<>>, {})
    /\ ohlcv_map = EmptyMap
    /\ aligned = NoAligned
    /\ apc = "off"

InitExtract ==
    /\ lines \in SeqsUpTo(LogLines, MaxLines)
    /\ li = 0
    /\ in_section = FALSE
    /\ computed_values = EmptyMap
    /\ epc = "scan"
    /\ AlignIdle
    /\ ParseIdle
    /\ MainIdle

\* one iteration of `for line in lines`
ExtractLine ==
    /\ epc = "scan"
    /\ li < Len(lines)
    /\ LET r == ScanLine(in_section, computed_values, lines[li + 1])
       IN  /\ in_section' = r.in_section
           /\ computed_values' = r.computed_values
           /\ IF r.brk
              THEN epc' = "returned" /\ li' = li
              ELSE epc' = "scan" /\ li' = li + 1
    /\ UNCHANGED <<lines, alignVars, parseVars, mainVars>>

\* the loop runs out of lines: return computed_values
ExtractReturn ==
    /\ epc = "scan"
    /\ li = Len(lines)
    /\ epc' = "returned"
    /\ UNCHANGED <<lines, li, in_section, computed_values, alignVars, parseVars, mainVars>>

NextExtract == ExtractLine \/ ExtractReturn

SpecExtract == InitExtract /\ [][NextExtract]_vars

-----------------------------------------------------------------------------
(* The automaton of the annotated-log extractor.                           *)

\* a line that matches the "bar / expected / computed" triple pattern
IsTriple(line) ==
    /\ IsDataLine(line)
    /\ Len(line) >= 4
    /\ ParseInt(line[1]).ok /\ ParseFloat(line[2]).ok /\ ParseFloat(line[3]).ok

TripleBar(line) == ParseInt(line[1]).val

TripleComputed(line) == ParseFloat(line[3]).val

\* the two-state automaton: idle -> collecting on a header, collecting -> idle
\* on the summary marker, self-loop otherwise
TwoStateDelta(q, line) ==
    IF q = "idle"
    THEN IF IsHeader(line) THEN "collecting" ELSE "idle"
    ELSE IF IsHeader(line) THEN "collecting"
         ELSE IF IsSummary(line) THEN "idle" ELSE "collecting"

\* the automaton with a terminal state: collecting -> stopped on the summary
\* marker, and stopped reads no further line
ThreeStateDelta(q, line) ==
    IF q = "idle"
    THEN IF IsHeader(line) THEN "collecting" ELSE "idle"
    ELSE IF q = "collecting"
         THEN IF IsHeader(line) THEN "collecting"
              ELSE IF IsSummary(line) THEN "stopped" ELSE "collecting"
         ELSE "stopped"

\* what a line contributes in state q: a triple line that is not a header,
\* read while collecting, puts bar_index -> computed_value
Collected(q, e, line) ==
    IF q = "collecting" /\ ~IsHeader(line) /\ IsTriple(line)
    THEN [x \in (DOMAIN e) \cup {TripleBar(line)} |->
             IF x = TripleBar(line) THEN TripleComputed(line) ELSE e[x]]
    ELSE e

RECURSIVE TwoStateRun(_, _, _, _)
\* the entries the two-state automaton has collected after lines ls[i+1..]
TwoStateRun(q, e, ls, i) ==
    IF i >= Len(ls) THEN e
    ELSE TwoStateRun(TwoStateDelta(q, ls[i + 1]), Collected(q, e, ls[i + 1]),
                     ls, i + 1)

RECURSIVE ThreeStateRun(_, _, _, _)
ThreeStateRun(q, e, ls, i) ==
    IF i >= Len(ls) THEN e
    ELSE ThreeStateRun(ThreeStateDelta(q, ls[i + 1]),
                       Collected(q, e, ls[i + 1]), ls, i + 1)

\* C8 (as stated): for every sequence of log lines, the entries returned by
\* extract_computed_values equal the entries the two-state automaton {idle,
\* collecting} collects (collecting -> idle on the summary marker).
C8_TwoStateAutomaton ==
    epc = "returned" =>
        computed_values = TwoStateRun("idle", EmptyMap, lines, 0)

\* C8 (amended): the entries returned by extract_computed_values equal the
\* entries collected by the automaton {idle, collecting, stopped} in which the
\* summary marker, read while collecting, leads to the terminal state stopped:
\* no line after it is read, a later header included.
C8_ThreeStateAutomaton ==
    epc = "returned" =>
        computed_values = ThreeStateRun("idle", EmptyMap, lines, 0)

C8_Witness ==
    /\ epc = "returned"
    /\ Len(lines) = 4
    /\ IsHeader(lines[1]) /\ ~IsSummary(lines[1])
    /\ IsTriple(lines[2]) /\ ~IsSummary(lines[2]) /\ ~IsHeader(lines[2])
    /\ IsSummary(lines[3]) /\ ~IsHeader(lines[3]) /\ ~IsDataLine(lines[3])
    /\ IsTriple(lines[4]) /\ TripleBar(lines[4]) # TripleBar(lines[2])
    /\ li = 2
    /\ DOMAIN computed_values = {TripleBar(lines[2])}
    /\ computed_values[TripleBar(lines[2])] = TripleComputed(lines[2])

-----------------------------------------------------------------------------
(* The record parsers: parse_ohlcv, parse_tssb_csv and the loop of main    *)
(* over the exporter's output.  Each reads token lines; a conversion that  *)
(* raises ends the function with that exception, as nothing catches it.    *)

Raise(type, cause) == [type |-> type, cause |-> cause]

\* the first of the conversions convs (<<column, "int" | "float">>, in the
\* order the code performs them) that raises on line, or 0 when none does
FirstFailing(line, convs) ==
    LET bad == { j \in 1..Len(convs) :
                   IF convs[j][2] = "int"
                   THEN ~ParseInt(line[convs[j][1] + 1]).ok
                   ELSE ~ParseFloat(line[convs[j][1] + 1]).ok }
    IN  IF bad = {} THEN 0 ELSE CHOOSE j \in bad : \A k \in bad : j <= k

ConversionName(conv) == <<conv[2], conv[1]>>

EmptyOhlcv ==
    [date |-> <<>>, time |-> <<>>, open |-> <<>>, high |-> <<>>,
     low |-> <<>>, close |-> <<>>, volume |-> <<>>]

\* lines 25-31 of parse_ohlcv, in order
OhlcvConversions ==
    << <<0, "int">>, <<1, "int">>, <<2, "float">>, <<3, "float">>,
       <<4, "float">>, <<5, "float">>, <<6, "float">> >>

OhlcvMinFields == 7

\* lines 23-31: one pass of the loop of parse_ohlcv
ParseOhlcvLine(out, line) ==
    IF Len(line) >= OhlcvMinFields
    THEN LET k == FirstFailing(line, OhlcvConversions)
         IN  IF k # 0
             THEN [out |-> out,
                   exc |-> Raise("ValueError", ConversionName(OhlcvConversions[k]))]
             ELSE [out |-> [date   |-> Append(out.date, ParseInt(line[1]).val),
                            time   |-> Append(out.time, ParseInt(line[2]).val),
                            open   |-> Append(out.open, ParseFloat(line[3]).val),
                            high   |-> Append(out.high, ParseFloat(line[4]).val),
                            low    |-> Append(out.low, ParseFloat(line[5]).val),
                            close  |-> Append(out.close, ParseFloat(line[6]).val),
                            volume |-> Append(out.volume, ParseFloat(line[7]).val)],
                   exc |-> NoException]
    ELSE [out |-> out, exc |-> NoException]

(* parse_tssb_csv.  An optional index is <<>> (None) or <<i>>.             *)

\* header.index(name) if name in header else None
HeaderIndex(header, name) ==
    LET at == { j \in 1..Len(header) : header[j] = name }
    IN  IF at = {} THEN <<>>
        ELSE << (CHOOSE j \in at : \A k \in at : j <= k) - 1 >>

\* the truth value Python gives an optional index: None and 0 are false
Truthy(o) == o # <<>> /\ o[1] # 0

\* lines 47-59: the locals after the header was read
CsvAfterHeader(header) ==
    [tgt_115_idx |-> HeaderIndex(header, "TGT_115"),
     tgt_315_idx |-> HeaderIndex(header, "TGT_315"),
     tgt_555_idx |-> HeaderIndex(header, "TGT_555"),
     date |-> <<>>, time |-> <<>>,
     TGT_115 |-> <<>>, TGT_315 |-> <<>>, TGT_555 |-> <<>>]

\* filter(None, [tgt_115_idx, tgt_315_idx, tgt_555_idx])
FoundIndices(out) ==
    { o[1] : o \in { x \in {out.tgt_115_idx, out.tgt_315_idx, out.tgt_555_idx} :
                       Truthy(x) } }

\* lines 67-83: try: append(float(parts[idx])) except: append(np.nan)
CsvCell(list, o, line) ==
    IF Truthy(o)
    THEN Append(list, IF ParseFloat(line[o[1] + 1]).ok
                      THEN ParseFloat(line[o[1] + 1]).val ELSE NaN)
    ELSE list

CsvKeyConversions == << <<0, "int">>, <<1, "int">> >>

\* lines 62-83: one pass of the loop of parse_tssb_csv
ParseCsvLine(out, line) ==
    IF FoundIndices(out) = {}
    THEN [out |-> out, exc |-> Raise("ValueError", <<"max", 0>>)]
    ELSE IF Len(line) > SetMax(FoundIndices(out))
         THEN LET k == FirstFailing(line, CsvKeyConversions)
              IN  IF k # 0
                  THEN [out |-> out,
                        exc |-> Raise("ValueError",
                                      ConversionName(CsvKeyConversions[k]))]
                  ELSE [out |-> [out EXCEPT
                            !.date = Append(@, ParseInt(line[1]).val),
                            !.time = Append(@, ParseInt(line[2]).val),
                            !.TGT_115 = CsvCell(@, out.tgt_115_idx, line),
                            !.TGT_315 = CsvCell(@, out.tgt_315_idx, line),
                            !.TGT_555 = CsvCell(@, out.tgt_555_idx, line)],
                        exc |-> NoException]
         ELSE [out |-> out, exc |-> NoException]

\* lines 85-91: the dict parse_tssb_csv returns
CsvResult(out) ==
    [date |-> out.date, time |-> out.time, TGT_115 |-> out.TGT_115,
     TGT_315 |-> out.TGT_315, TGT_555 |-> out.TGT_555]

(* main, lines 263-274: the exporter's output lines.                       *)

ExportFields == 4

\* lines 264-266
EmptyComputed(n) ==
    [TGT_115 |-> full(n, NaN), TGT_315 |-> full(n, NaN), TGT_555 |-> full(n, NaN)]

\* lines 269-274: one pass of the loop over result.stdout's lines
ParseExportLine(out, line) ==
    IF Len(line) = ExportFields
    THEN IF ~ParseInt(line[1]).ok
         THEN [out |-> out, exc |-> Raise("ValueError", <<"int", 0>>)]
         ELSE IF ~ParseFloat(line[2]).ok
         THEN [out |-> out, exc |-> Raise("ValueError", <<"float", 1>>)]
         ELSE IF ParseInt(line[1]).val >= Len(out.TGT_115)
         THEN [out |-> out, exc |-> Raise("IndexError", <<"index", 0>>)]
         ELSE IF ~ParseFloat(line[3]).ok
         THEN [out |-> out, exc |-> Raise("ValueError", <<"float", 2>>)]
         ELSE IF ~ParseFloat(line[4]).ok
         THEN [out |-> out, exc |-> Raise("ValueError", <<"float", 3>>)]
         ELSE [out |-> [TGT_115 |-> ArrayStore(out.TGT_115, ParseInt(line[1]).val,
                                               ParseFloat(line[2]).val),
                        TGT_315 |-> ArrayStore(out.TGT_315, ParseInt(line[1]).val,
                                               ParseFloat(line[3]).val),
                        TGT_555 |-> ArrayStore(out.TGT_555, ParseInt(line[1]).val,
                                               ParseFloat(line[4]).val)],
               exc |-> NoException]
    ELSE [out |-> out, exc |-> NoException]

(* Bounds and inputs of the parser model.                                  *)

MaxFileLines == 3

OhlcvLines ==
    { <<"20240101", "930", "7", "8", "7", "8", "9">>,
      <<"20240101", "931", "8", "9", "7", "8", "nan">>,
      <<"20240102", "930", "8", "9", "7", "8", "9", "extra">>,
      <<"20240101", "930", "7">>,
      <<"2024-01-01", "930", "7", "8", "7", "8", "9">>,
      <<"20240101", "9:30", "7", "8", "7", "8", "9">>,
      <<"20240101", "931", "7", "8", "7", "x", "9">> }

CsvHeaders ==
    { <<"Date", "Time", "TGT_115", "TGT_315", "TGT_555">>,
      <<"Date", "Time", "TGT_115", "TGT_555">>,
      <<"Date", "Time", "TGT_315">>,
      <<"Date", "Time", "CMMA_S">> }

CsvLines ==
    { <<"20240101", "930", "1", "2", "0">>,
      <<"20240101", "931", "inf", "nan", "7">>,
      <<"20240102", "930", "x", "2", "8">>,
      <<"20240101", "930">>,
      <<"Date", "930", "1", "2", "0">>,
      <<"20240101", "x", "1", "2", "0">> }

ExportLines ==
    { <<"0", "1", "2", "0">>,
      <<"1", "7", "nan", "inf">>,
      <<"0", "1", "2">>,
      <<"x", "1", "2", "0">>,
      <<"0", "1", "x", "0">>,
      <<"9", "1", "2", "0">> }

\* the bar counts the export stream is parsed against
ExportBarCounts == {1, 2}

InitParse ==
    /\ \/ /\ pkind = "parse_ohlcv"
          /\ ptext \in SeqsUpTo(OhlcvLines, MaxFileLines)
          /\ pout = EmptyOhlcv
          /\ ppc = "scan"
       \/ /\ pkind = "parse_tssb_csv"
          /\ \E h \in CsvHeaders : \E rows \in SeqsUpTo(CsvLines, MaxFileLines - 1) :
               ptext = <<h>> \o rows
          /\ pout = <<>>
          /\ ppc = "header"
       \/ /\ pkind = "export_stream"
          /\ ptext \in SeqsUpTo(ExportLines, MaxFileLines)
          /\ \E n \in ExportBarCounts : pout = EmptyComputed(n)
          /\ ppc = "scan"
    /\ ppos = 0
    /\ pexc = NoException
    /\ AlignIdle
    /\ ExtractIdle
    /\ MainIdle

\* the effect of a loop pass with result r on the parser's variables
ParsePass(r) ==
    /\ pout' = r.out
    /\ pexc' = r.exc
    /\ IF r.exc = NoException
       THEN ppc' = "scan" /\ ppos' = ppos + 1
       ELSE ppc' = "raised" /\ ppos' = ppos

OhlcvLine ==
    /\ pkind = "parse_ohlcv" /\ ppc = "scan" /\ ppos < Len(ptext)
    /\ ParsePass(ParseOhlcvLine(pout, ptext[ppos + 1]))
    /\ UNCHANGED <<pkind, ptext, alignVars, extractVars, mainVars>>

CsvHeader ==
    /\ pkind = "parse_tssb_csv" /\ ppc = "header"
    /\ pout' = CsvAfterHeader(ptext[1])
    /\ ppos' = 1
    /\ ppc' = "scan"
    /\ UNCHANGED <<pkind, ptext, pexc, alignVars, extractVars, mainVars>>

CsvLine ==
    /\ pkind = "parse_tssb_csv" /\ ppc = "scan" /\ ppos < Len(ptext)
    /\ ParsePass(ParseCsvLine(pout, ptext[ppos + 1]))
    /\ UNCHANGED <<pkind, ptext, alignVars, extractVars, mainVars>>

ExportLine ==
    /\ pkind = "export_stream" /\ ppc = "scan" /\ ppos < Len(ptext)
    /\ ParsePass(ParseExportLine(pout, ptext[ppos + 1]))
    /\ UNCHANGED <<pkind, ptext, alignVars, extractVars, mainVars>>

\* the loop runs out of lines and the function returns
ParseReturn ==
    /\ ppc = "scan" /\ ppos = Len(ptext)
    /\ ppc' = "returned"
    /\ UNCHANGED <<pkind, ptext, ppos, pout, pexc, alignVars, extractVars, mainVars>>

NextParse == OhlcvLine \/ CsvHeader \/ CsvLine \/ ExportLine \/ ParseReturn

SpecParse == InitParse /\ [][NextParse]_vars

\* the conversions of a record's numeric fields
NumericConversions ==
    { <<c, col>> : c \in {"int", "float"}, col \in 0..6 }

\* C7: in the primary OHLCV file, the reference CSV and the export stream, an
\* unparsable numeric field in any column (or a wrong field count) never ends
\* parsing with an exception: no parser stops at a record because one of the
\* conversions of its fields raised.
C7_MalformedRecovered ==
    ~(ppc = "raised" /\ pexc.type = "ValueError" /\ pexc.cause \in NumericConversions)

-----------------------------------------------------------------------------
(* Arithmetic on the values, as numpy computes it.                         *)

NegInf == [kind |-> "inf", val |-> 0 - 1]

Negated(x) ==
    IF x.kind = "nan" THEN x ELSE [kind |-> x.kind, val |-> 0 - x.val]

\* a - b
Sub(a, b) ==
    IF isnan(a) \/ isnan(b) THEN NaN
    ELSE IF a.kind = "inf" /\ b.kind = "inf"
         THEN IF a.val = b.val THEN NaN ELSE a
    ELSE IF a.kind = "inf" THEN a
    ELSE IF b.kind = "inf" THEN Negated(b)
    ELSE Fin(a.val - b.val)

\* np.abs
Abs(x) ==
    IF x.kind = "nan" THEN x
    ELSE IF x.kind = "inf" THEN Inf
    ELSE Fin(IF x.val < 0 THEN 0 - x.val ELSE x.val)

\* np.abs(d / c); a finite quotient is kept as the fraction <<|d|, |c|>>
AbsQuotient(d, c) ==
    IF isnan(d) \/ isnan(c) THEN NaN
    ELSE IF c.kind = "inf"
         THEN IF d.kind = "inf" THEN NaN ELSE [kind |-> "fin", val |-> <<0, 1>>]
    ELSE IF c.val = 0
         THEN IF d.kind = "fin" /\ d.val = 0 THEN NaN ELSE Inf
    ELSE IF d.kind = "inf" THEN Inf
    ELSE [kind |-> "fin", val |-> <<Abs(d).val, Abs(c).val>>]

RECURSIVE SumOver(_, _)
\* the sum of the finite values a[p + 1], p in the set of positions P
SumOver(a, P) ==
    IF P = {} THEN 0
    ELSE LET p == CHOOSE x \in P : TRUE
         IN  a[p + 1].val + SumOver(a, P \ {p})

\* np.nanmean(a[lo : hi + 1]) and np.mean: the positions that enter the mean
\* (NaN entries are left out by nanmean) and the sum it divides by their number
MeanOf(a, P) ==
    [over |-> P,
     sum  |-> IF \E p \in P : isnan(a[p + 1]) THEN NaN
              ELSE IF \E p \in P : a[p + 1].kind = "inf" THEN Inf
              ELSE Fin(SumOver(a, P))]

NanMean(a, lo, hi) == MeanOf(a, { p \in lo..hi : ~isnan(a[p + 1]) })

\* np.nanmax(a[lo : hi + 1]): the positions it ranges over and the maximum
NanMax(a, lo, hi) ==
    LET P == { p \in lo..hi : ~isnan(a[p + 1]) }
    IN  [over  |-> P,
         value |-> IF P = {} THEN NaN
                   ELSE IF \E p \in P : a[p + 1].kind = "inf" THEN Inf
                   ELSE Fin(SetMax({ a[p + 1].val : p \in P }))]

SetMin(S) == CHOOSE x \in S : \A y \in S : x <= y

-----------------------------------------------------------------------------
(* The comparison of one indicator.                                        *)

\* plot_hit_or_miss.py line 287: ~np.isnan(csv_vals) & ~np.isnan(computed_vals)
ValidMask(ref, comp) ==
    [j \in 1..Len(ref) |-> ~isnan(ref[j]) /\ ~isnan(comp[j])]

\* plot_cmma.py line 16: np.isfinite(df[csv_col]) & np.isfinite(df[computed_col])
CmmaValidMask(ref, comp) ==
    [j \in 1..Len(ref) |-> isfinite(ref[j]) /\ isfinite(comp[j])]

\* np.where(valid)[0]
ValidIndices(mask) == { j - 1 : j \in { k \in 1..Len(mask) : mask[k] } }

NoStats == [computed |-> FALSE]

\* plot_hit_or_miss.py lines 294-295 and 326-338: the statistics over
\* [start_idx, end_idx], the range from the first to the last valid index
HitOrMissStats(ref, comp, mask) ==
    LET start_idx == SetMin(ValidIndices(mask))
        end_idx == SetMax(ValidIndices(mask))
        diff == [j \in 1..Len(ref) |-> Sub(comp[j], ref[j])]
        absdiff == [j \in 1..Len(ref) |-> Abs(diff[j])]
        rel == [j \in 1..Len(ref) |-> AbsQuotient(diff[j], ref[j])]
    IN  [computed |-> TRUE,
         mae |-> NanMean(absdiff, start_idx, end_idx),
         max_error |-> NanMax(absdiff, start_idx, end_idx),
         mean_rel_error |->
             [over |-> { p \in start_idx..end_idx : ~isnan(rel[p + 1]) },
              terms |-> rel]]

\* plot_cmma.py lines 17-44: MAE = np.mean(np.abs(diff)) over df_valid
CmmaStats(ref, comp, mask) ==
    LET absdiff == [j \in 1..Len(ref) |-> Abs(Sub(comp[j], ref[j]))]
    IN  [computed |-> TRUE, mae |-> MeanOf(absdiff, ValidIndices(mask))]

-----------------------------------------------------------------------------
(* The scripts' main().                                                    *)

\* the (name, reference array, computed array) triples each script loops over
Indicators(p) ==
    IF p = "plot_cmma" THEN <<"CMMA_S", "CMMA_M", "CMMA_L">>
    ELSE <<"TGT_115", "TGT_315", "TGT_555">>

NIndicators == 3

RECURSIVE ParseOhlcvFrom(_, _, _)
\* parse_ohlcv over the lines of the file from 0-based line i on
ParseOhlcvFrom(text, i, out) ==
    IF i >= Len(text) THEN [out |-> out, exc |-> NoException]
    ELSE LET r == ParseOhlcvLine(out, text[i + 1])
         IN  IF r.exc # NoException THEN r ELSE ParseOhlcvFrom(text, i + 1, r.out)

RECURSIVE ParseCsvFrom(_, _, _)
ParseCsvFrom(text, i, out) ==
    IF i >= Len(text) THEN [out |-> out, exc |-> NoException]
    ELSE LET r == ParseCsvLine(out, text[i + 1])
         IN  IF r.exc # NoException THEN r ELSE ParseCsvFrom(text, i + 1, r.out)

\* parse_tssb_csv on a file whose first line is the header
parse_tssb_csv(text) ==
    LET r == ParseCsvFrom(text, 1, CsvAfterHeader(IF text = <<>> THEN <<>> ELSE text[1]))
    IN  [out |-> CsvResult(r.out), exc |-> r.exc]

RECURSIVE ParseExportFrom(_, _, _)
ParseExportFrom(text, i, out) ==
    IF i >= Len(text) THEN [out |-> out, exc |-> NoException]
    ELSE LET r == ParseExportLine(out, text[i + 1])
         IN  IF r.exc # NoException THEN r ELSE ParseExportFrom(text, i + 1, r.out)

(* Inputs of the runs.                                                     *)

HomOhlcvFiles ==
    { << <<"20240101", "930", "7", "8", "7", "8", "9">>,
         <<"20240101", "931", "8", "9", "7", "8", "nan">> >>,
      << <<"20240101", "930", "7", "8", "7", "8", "9">> >>,
      << <<"20240101", "930", "7", "8", "7", "8", "9">>,
         <<"2024-01-01", "931", "7", "8", "7", "8", "9">> >>,
      << >> }

HomCsvFiles ==
    { << <<"Date", "Time", "TGT_115", "TGT_315", "TGT_555">>,
         <<"20240101", "930", "1", "2", "0">>,
         <<"20240101", "931", "inf", "nan", "7">> >>,
      << <<"Date", "Time", "TGT_115", "TGT_315", "TGT_555">>,
         <<"20240101", "931", "inf", "nan", "7">> >>,
      << <<"Date", "Time", "TGT_115", "TGT_315", "TGT_555">>,
         <<"20240102", "930", "x", "2", "8">> >>,
      << <<"Date", "Time", "TGT_315">>,
         <<"20240101", "930", "1">> >>,
      << <<"Date", "Time", "TGT_115", "TGT_315", "TGT_555">>,
         <<"20240101", "930", "1", "2", "0">>,
         <<"Date", "931", "1", "2", "0">> >> }

\* CMakeLists.txt, without and with the exporter's target
CmakeFiles ==
    { << <<"project">> >>,
      << <<"project">>, <<"add_executable", "export_hit_or_miss">> >> }

\* lines 250-252: cmake_add is appended unless the file names the target
WithExporterTarget(text) ==
    IF \E j \in 1..Len(text) : InLine("export_hit_or_miss", text[j]) THEN text
    ELSE Append(text, <<"add_executable", "export_hit_or_miss">>)

\* result.stdout.strip().split('\n') of the exporter; empty output is one
\* line without tokens
ExporterOutputs ==
    { << <<"0", "1", "2", "1">>, <<"1", "7", "nan", "inf">> >>,
      << <<"0", "1", "2", "1">> >>,
      << <<"0", "2", "2", "0">>, <<"1", "8", "8", "8">> >>,
      << << >> >>,
      << <<"x", "1", "2", "0">> >>,
      << <<"9", "1", "2", "0">> >> }

\* how a subprocess.run call ends: the program ran and exited with status 0,
\* ran and exited with another status, or could not be started (OSError)
SubprocessOutcomes == {"zero", "nonzero", "oserror"}

\* the rows of the data frame plot_cmma reads: per indicator the reference
\* and the computed column
CmmaFrames ==
    { [csv      |-> [CMMA_S |-> <<Fin(1), Fin(2)>>, CMMA_M |-> <<NaN, NaN>>,
                     CMMA_L |-> <<Inf, Fin(2)>>],
       computed |-> [CMMA_S |-> <<Fin(1), Fin(7)>>, CMMA_M |-> <<Fin(1), Fin(2)>>,
                     CMMA_L |-> <<Fin(1), Fin(0)>>]],
      [csv      |-> [CMMA_S |-> <<NaN>>, CMMA_M |-> <<Inf>>, CMMA_L |-> <<NaN>>],
       computed |-> [CMMA_S |-> <<Fin(1)>>, CMMA_M |-> <<Fin(1)>>, CMMA_L |-> <<NaN>>]],
      [csv      |-> [CMMA_S |-> <<Fin(0), NaN>>, CMMA_M |-> <<Fin(1), Fin(2)>>,
                     CMMA_L |-> <<Fin(2), Fin(2)>>],
       computed |-> [CMMA_S |-> <<Fin(1), Fin(7)>>, CMMA_M |-> <<Inf, NaN>>,
                     CMMA_L |-> <<Fin(1), Inf>>]] }

\* the rows of the CSV the exporter reads: timestamp_unix and one value column
QdbCsvFiles ==
    { << [timestamp_unix |-> "7", close |-> "8"],
         [timestamp_unix |-> "", close |-> "8"] >>,
      << [timestamp_unix |-> "x", close |-> "8"] >>,
      << [timestamp_unix |-> "7", close |-> "x"],
         [timestamp_unix |-> "9", close |-> "1"] >>,
      << [timestamp_unix |-> "nan", close |-> "8"],
         [timestamp_unix |-> "inf", close |-> "8"] >>,
      << >> }

SocketOutcomes == {"sent", "connect_oserror", "sendall_oserror"}

ExternalCalls ==
    {"run_indicator_computation", "build_exporter", "run_exporter", "socket"}

NotCalled == [outcome |-> "not called", stdout |-> <<>>]

Running == [code |-> 0, error |-> "none", stage |-> "none"]

\* the process ends with status 1: an exception nothing catches (Python prints
\* the traceback, which names the exception and the statement), or an error
\* message on stderr followed by `return 1`
Fails(error, stage) ==
    /\ mpc' = "exited"
    /\ exit' = [code |-> 1, error |-> error, stage |-> stage]

Called(c, outcome, out) ==
    /\ ext' = [ext EXCEPT ![c] = [outcome |-> outcome, stdout |-> out]]
    /\ calls' = [calls EXCEPT ![c] = @ + 1]

InitMain ==
    /\ prog \in {"plot_hit_or_miss", "plot_cmma", "export_dataset_to_questdb"}
    /\ \/ /\ prog = "plot_hit_or_miss"
          /\ \E present \in SUBSET {"ohlcv_file", "csv_file", "cmake_file"} :
               files \in [present ->
                            HomOhlcvFiles \cup HomCsvFiles \cup CmakeFiles]
          /\ \A path \in DOMAIN files :
               files[path] \in (CASE path = "ohlcv_file" -> HomOhlcvFiles
                                  [] path = "csv_file" -> HomCsvFiles
                                  [] path = "cmake_file" -> CmakeFiles)
          /\ mpc = "parse_ohlcv"
       \/ /\ prog = "plot_cmma"
          /\ \E present \in SUBSET {"csv_file"} : files \in [present -> CmmaFrames]
          /\ mpc = "read_csv"
       \/ /\ prog = "export_dataset_to_questdb"
          /\ \E present \in SUBSET {"csv"} : files \in [present -> QdbCsvFiles]
          /\ mpc = "read_csv"
    /\ ext = [c \in ExternalCalls |-> NotCalled]
    /\ calls = [c \in ExternalCalls |-> 0]
    /\ computed = <<>>
    /\ fi = 0
    /\ masks = EmptyMap
    /\ stats = EmptyMap
    /\ report = EmptyMap
    /\ payload = <<>>
    /\ exit = Running
    /\ ohlcv = OhlcvOf(<<>>)
    /\ csv_data = CsvOf(<<>>, <<>>, {})
    /\ ohlcv_map = EmptyMap
    /\ aligned = NoAligned
    /\ apc = "off"
    /\ ExtractIdle
    /\ ParseIdle

Hom == prog = "plot_hit_or_miss"

\* lines 167-170
HomParseOhlcv ==
    /\ Hom /\ mpc = "parse_ohlcv"
    /\ IF "ohlcv_file" \notin DOMAIN files
       THEN Fails("FileNotFoundError", "parse_ohlcv") /\ UNCHANGED ohlcv
       ELSE LET r == ParseOhlcvFrom(files["ohlcv_file"], 0, EmptyOhlcv)
            IN  IF r.exc # NoException
                THEN Fails(r.exc.type, "parse_ohlcv") /\ UNCHANGED ohlcv
                ELSE ohlcv' = r.out /\ mpc' = "parse_tssb_csv" /\ UNCHANGED exit
    /\ UNCHANGED <<prog, files, ext, calls, computed, fi, masks, stats, report,
                   payload, csv_data, ohlcv_map, aligned, apc, extractVars,
                   parseVars>>

\* lines 172-174
HomParseCsv ==
    /\ Hom /\ mpc = "parse_tssb_csv"
    /\ IF "csv_file" \notin DOMAIN files
       THEN Fails("FileNotFoundError", "parse_tssb_csv") /\ UNCHANGED csv_data
       ELSE LET r == parse_tssb_csv(files["csv_file"])
            IN  IF r.exc # NoException
                THEN Fails(r.exc.type, "parse_tssb_csv") /\ UNCHANGED csv_data
                ELSE csv_data' = r.out /\ mpc' = "align_data" /\ UNCHANGED exit
    /\ UNCHANGED <<prog, files, ext, calls, computed, fi, masks, stats, report,
                   payload, ohlcv, ohlcv_map, aligned, apc, extractVars,
                   parseVars>>

\* lines 176-177
HomAlign ==
    /\ Hom /\ mpc = "align_data"
    /\ aligned' = align_data(ohlcv, csv_data)
    /\ mpc' = "run_indicator_computation"
    /\ UNCHANGED <<prog, files, ext, calls, computed, fi, masks, stats, report,
                   payload, exit, ohlcv, csv_data, ohlcv_map, apc, extractVars,
                   parseVars>>

\* lines 179-180 and 93-97: subprocess.run without check=True returns whatever
\* the exit status is; it raises only when the program cannot be started
HomRunIndicator ==
    /\ Hom /\ mpc = "run_indicator_computation"
    /\ \E o \in SubprocessOutcomes :
         /\ Called("run_indicator_computation", o, <<>>)
         /\ IF o = "oserror"
            THEN Fails("OSError", "run_indicator_computation")
            ELSE mpc' = "prepare_exporter" /\ UNCHANGED exit
    /\ UNCHANGED <<prog, files, computed, fi, masks, stats, report, payload,
                   alignVars, extractVars, parseVars>>

\* lines 186-252: the exporter's source is written and CMakeLists.txt is read
\* (and extended when it does not name the target yet)
HomPrepareExporter ==
    /\ Hom /\ mpc = "prepare_exporter"
    /\ IF "cmake_file" \notin DOMAIN files
       THEN Fails("FileNotFoundError", "prepare_exporter") /\ UNCHANGED files
       ELSE /\ files' = [p \in (DOMAIN files) \cup {"export_cpp"} |->
                           IF p = "export_cpp" THEN << <<"export_code">> >>
                           ELSE IF p = "cmake_file"
                                THEN WithExporterTarget(files[p])
                                ELSE files[p]]
            /\ mpc' = "build_exporter"
            /\ UNCHANGED exit
    /\ UNCHANGED <<prog, ext, calls, computed, fi, masks, stats, report, payload,
                   alignVars, extractVars, parseVars>>

\* lines 254-256
HomBuildExporter ==
    /\ Hom /\ mpc = "build_exporter"
    /\ \E o \in SubprocessOutcomes :
         /\ Called("build_exporter", o, <<>>)
         /\ IF o = "oserror"
            THEN Fails("OSError", "build_exporter")
            ELSE mpc' = "run_exporter" /\ UNCHANGED exit
    /\ UNCHANGED <<prog, files, computed, fi, masks, stats, report, payload,
                   alignVars, extractVars, parseVars>>

\* lines 258-261
HomRunExporter ==
    /\ Hom /\ mpc = "run_exporter"
    /\ \E o \in SubprocessOutcomes :
         \E out \in IF o = "oserror" THEN {<<>>} ELSE ExporterOutputs :
           /\ Called("run_exporter", o, out)
           /\ IF o = "oserror"
              THEN Fails("OSError", "run_exporter")
              ELSE mpc' = "parse_export" /\ UNCHANGED exit
    /\ UNCHANGED <<prog, files, computed, fi, masks, stats, report, payload,
                   alignVars, extractVars, parseVars>>

\* lines 263-283
HomParseExport ==
    /\ Hom /\ mpc = "parse_export"
    /\ LET r == ParseExportFrom(ext["run_exporter"].stdout, 0,
                                EmptyComputed(Len(ohlcv.date)))
       IN  IF r.exc # NoException
           THEN Fails(r.exc.type, "parse_export") /\ UNCHANGED computed
           ELSE computed' = r.out /\ mpc' = "indicators" /\ UNCHANGED exit
    /\ UNCHANGED <<prog, files, ext, calls, fi, masks, stats, report, payload,
                   alignVars, extractVars, parseVars>>

\* the name of the indicator the loop is at
Field == Indicators(prog)[fi + 1]

AfterSkipBreak(i) == NIndicators

\* line 292: `continue` goes on with the next indicator
AfterSkip(i) == i + 1

\* lines 285-292: no valid index: the warning and `continue`
HomFieldSkip ==
    /\ Hom /\ mpc = "indicators" /\ fi < NIndicators
    /\ LET valid == ValidMask(aligned[Field], computed[Field])
       IN  /\ ValidIndices(valid) = {}
           /\ masks' = MapStore(masks, Field, valid)
           /\ stats' = MapStore(stats, Field, NoStats)
           /\ report' = MapStore(report, Field, "skipped with warning")
    /\ fi' = AfterSkip(fi)
    /\ UNCHANGED <<prog, mpc, files, ext, calls, computed, payload, exit,
                   alignVars, extractVars, parseVars>>

\* lines 285-349: the comparison, its statistics and its plot
HomFieldCompare ==
    /\ Hom /\ mpc = "indicators" /\ fi < NIndicators
    /\ LET valid == ValidMask(aligned[Field], computed[Field])
       IN  /\ ValidIndices(valid) # {}
           /\ masks' = MapStore(masks, Field, valid)
           /\ stats' = MapStore(stats, Field,
                                HitOrMissStats(aligned[Field], computed[Field], valid))
           /\ report' = MapStore(report, Field, "compared")
    /\ fi' = fi + 1
    /\ UNCHANGED <<prog, mpc, files, ext, calls, computed, payload, exit,
                   alignVars, extractVars, parseVars>>

\* lines 351-386: the overview plot and "Plots created successfully!"; main
\* returns and the process ends with status 0
HomOverview ==
    /\ Hom /\ mpc = "indicators" /\ fi >= NIndicators
    /\ mpc' = "exited"
    /\ exit' = [code |-> 0, error |-> "none", stage |-> "none"]
    /\ UNCHANGED <<prog, files, ext, calls, computed, fi, masks, stats, report,
                   payload, alignVars, extractVars, parseVars>>

(* plot_cmma.py                                                            *)

Cmma == prog = "plot_cmma"

\* lines 135-141: pd.read_csv
CmmaReadCsv ==
    /\ Cmma /\ mpc = "read_csv"
    /\ IF "csv_file" \notin DOMAIN files
       THEN /\ Fails("FileNotFoundError", "read_csv")
            /\ UNCHANGED <<aligned, computed>>
       ELSE /\ aligned' = files["csv_file"].csv
            /\ computed' = files["csv_file"].computed
            /\ mpc' = "indicators"
            /\ UNCHANGED exit
    /\ UNCHANGED <<prog, files, ext, calls, fi, masks, stats, report, payload,
                   ohlcv, csv_data, ohlcv_map, apc, extractVars, parseVars>>

\* lines 150-153 with 16-21 and 85-90: both plot functions print the warning
\* and return
CmmaFieldSkip ==
    /\ Cmma /\ mpc = "indicators" /\ fi < NIndicators
    /\ LET valid_mask == CmmaValidMask(aligned[Field], computed[Field])
       IN  /\ ValidIndices(valid_mask) = {}
           /\ masks' = MapStore(masks, Field, valid_mask)
           /\ stats' = MapStore(stats, Field, NoStats)
           /\ report' = MapStore(report, Field, "skipped with warning")
    /\ fi' = fi + 1
    /\ UNCHANGED <<prog, mpc, files, ext, calls, computed, payload, exit,
                   alignVars, extractVars, parseVars>>

\* lines 150-153 with 16-78 and 85-127
CmmaFieldCompare ==
    /\ Cmma /\ mpc = "indicators" /\ fi < NIndicators
    /\ LET valid_mask == CmmaValidMask(aligned[Field], computed[Field])
       IN  /\ ValidIndices(valid_mask) # {}
           /\ masks' = MapStore(masks, Field, valid_mask)
           /\ stats' = MapStore(stats, Field,
                                CmmaStats(aligned[Field], computed[Field], valid_mask))
           /\ report' = MapStore(report, Field, "compared")
    /\ fi' = fi + 1
    /\ UNCHANGED <<prog, mpc, files, ext, calls, computed, payload, exit,
                   alignVars, extractVars, parseVars>>

\* lines 155-159
CmmaFinish ==
    /\ Cmma /\ mpc = "indicators" /\ fi >= NIndicators
    /\ mpc' = "exited"
    /\ exit' = [code |-> 0, error |-> "none", stage |-> "none"]
    /\ UNCHANGED <<prog, files, ext, calls, computed, fi, masks, stats, report,
                   payload, alignVars, extractVars, parseVars>>

(* export_dataset_to_questdb.py                                            *)

Qdb == prog = "export_dataset_to_questdb"

\* to_number: None is <<>>
to_number(value) ==
    IF value = "" THEN <<>>
    ELSE IF ParseInt(value).ok THEN <<ParseInt(value).val>> ELSE <<>>

\* build_ilp: None is <<>>, a line is <<[ts, close]>>.  int(float(ts_raw))
\* raises ValueError on a NaN (caught: None) and OverflowError on an infinity
\* (not caught)
build_ilp(row) ==
    IF row.timestamp_unix = "" THEN [ilp |-> <<>>, exc |-> NoException]
    ELSE IF ~ParseFloat(row.timestamp_unix).ok
            \/ isnan(ParseFloat(row.timestamp_unix).val)
         THEN [ilp |-> <<>>, exc |-> NoException]
    ELSE IF ~isfinite(ParseFloat(row.timestamp_unix).val)
         THEN [ilp |-> <<>>, exc |-> Raise("OverflowError", <<"int", 0>>)]
    ELSE IF to_number(row.close) = <<>> THEN [ilp |-> <<>>, exc |-> NoException]
    ELSE [ilp |-> << [ts |-> ParseFloat(row.timestamp_unix).val.val,
                      close |-> to_number(row.close)[1]] >>,
          exc |-> NoException]

RECURSIVE IlpLines(_, _, _)
\* lines 73-77: the loop over the reader's rows from 0-based row i on
IlpLines(rows, i, acc) ==
    IF i >= Len(rows) THEN [lines |-> acc, exc |-> NoException]
    ELSE LET r == build_ilp(rows[i + 1])
         IN  IF r.exc # NoException THEN [lines |-> acc, exc |-> r.exc]
             ELSE IlpLines(rows, i + 1, acc \o r.ilp)

\* lines 69-86: only FileNotFoundError is caught around the loop
QdbReadCsv ==
    /\ Qdb /\ mpc = "read_csv"
    /\ IF "csv" \notin DOMAIN files
       THEN Fails("CSV file not found", "read_csv") /\ UNCHANGED payload
       ELSE LET r == IlpLines(files["csv"], 0, <<>>)
            IN  IF r.exc # NoException
                THEN Fails(r.exc.type, "read_csv") /\ UNCHANGED payload
                ELSE IF r.lines = <<>>
                THEN Fails("No ILP lines generated", "read_csv") /\ UNCHANGED payload
                ELSE payload' = r.lines /\ mpc' = "send" /\ UNCHANGED exit
    /\ UNCHANGED <<prog, files, ext, calls, computed, fi, masks, stats, report,
                   alignVars, extractVars, parseVars>>

\* lines 88-96: OSError is caught, printed and turned into `return 1`
QdbSend ==
    /\ Qdb /\ mpc = "send"
    /\ \E o \in SocketOutcomes :
         /\ Called("socket", o, <<>>)
         /\ mpc' = "exited"
         /\ exit' = IF o = "sent"
                    THEN [code |-> 0, error |-> "none", stage |-> "none"]
                    ELSE [code |-> 1, error |-> "Failed to send ILP payload",
                          stage |-> "socket"]
    /\ UNCHANGED <<prog, files, computed, fi, masks, stats, report, payload,
                   alignVars, extractVars, parseVars>>

NextMain ==
    \/ HomParseOhlcv \/ HomParseCsv \/ HomAlign \/ HomRunIndicator
    \/ HomPrepareExporter \/ HomBuildExporter \/ HomRunExporter
    \/ HomParseExport \/ HomFieldSkip \/ HomFieldCompare \/ HomOverview
    \/ CmmaReadCsv \/ CmmaFieldSkip \/ CmmaFieldCompare \/ CmmaFinish
    \/ QdbReadCsv \/ QdbSend

SpecMain == InitMain /\ [][NextMain]_vars

-----------------------------------------------------------------------------
(* Properties of the runs.                                                 *)

\* the positions where both the reference and the computed value of indicator
\* f are present and finite
JointlyFinite(f) ==
    { j - 1 : j \in { k \in 1..Len(aligned[f]) :
                        isfinite(aligned[f][k]) /\ isfinite(computed[f][k]) } }

Failed(outcome) ==
    outcome \in {"nonzero", "oserror", "connect_oserror", "sendall_oserror"}

\* every external call made so far succeeded
NoExternalFailure == \A c \in ExternalCalls : ~Failed(ext[c].outcome)

\* C5: for every position the validity mask used by the comparison is true
\* iff both the reference and the computed value are present and finite, and
\* MAE and max error are computed only over positions where the mask is true
\* (stated for the runs in which every external call succeeded).
C5_ValidityMask ==
    NoExternalFailure => \A f \in DOMAIN masks :
        /\ ValidIndices(masks[f]) = JointlyFinite(f)
        /\ stats[f].computed => stats[f].mae.over \subseteq JointlyFinite(f)
        /\ (stats[f].computed /\ Hom)
               => stats[f].max_error.over \subseteq JointlyFinite(f)

\* the 0-based positions of the indicators whose comparison was skipped
SkippedAt ==
    { j \in 0..(NIndicators - 1) :
        /\ Indicators(prog)[j + 1] \in DOMAIN report
        /\ report[Indicators(prog)[j + 1]] = "skipped with warning" }

C9_ExternalFailureFatal ==
    \A c \in ExternalCalls :
        /\ calls[c] <= 1
        /\ Failed(ext[c].outcome) =>
               mpc = "exited" /\ exit.code # 0 /\ exit.stage = c

RequiredFiles == {"ohlcv_file", "csv_file", "cmake_file"}

\* every indicator was handled and none had a jointly valid position
ZeroOverlapEverywhere ==
    /\ DOMAIN masks = FieldNames
    /\ \A f \in FieldNames : ValidIndices(masks[f]) = {}

\* C10: when every field has zero jointly valid positions, or a required input
\* file is missing, the run ends with a non-zero status and names the stage
\* that failed (stated for the runs in which every external call succeeded).
C10_StructuralFailureExits ==
    (Hom /\ mpc = "exited" /\ NoExternalFailure) =>
        ((ZeroOverlapEverywhere \/ ~(RequiredFiles \subseteq DOMAIN files))
            => (exit.code # 0 /\ exit.stage # "none"))

\* the positions of indicator f that are valid and finite in both series and
\* whose reference value is exactly 0
ZeroReferenceAt(f) ==
    { q \in ValidIndices(masks[f]) :
        /\ aligned[f][q + 1] = Fin(0)
        /\ isfinite(computed[f][q + 1]) }

\* C11: the mean relative error of a compared indicator is taken only over
\* valid positions whose reference value is nonzero: a valid position whose
\* reference value is exactly 0 does not enter the mean, and no term that
\* enters the mean is infinite because of it (stated for the runs in which
\* every external call succeeded).
C11_RelErrorNonzeroReference ==
    (Hom /\ NoExternalFailure) =>
        \A f \in DOMAIN stats :
            stats[f].computed =>
                \A q \in ZeroReferenceAt(f) :
                    /\ q \notin stats[f].mean_rel_error.over
                    /\ stats[f].mean_rel_error.terms[q + 1] # Inf

-----------------------------------------------------------------------------
(* Properties of the steps of extract_computed_values.                     *)

\* a header for the indicator of interest is among the lines already handled
HeaderSeen == \E j \in 1..li : IsHeader(lines[j])

\* a summary marker that ends the section is among the lines already handled
SummarySeen ==
    \E k \in 1..li :
        /\ IsSummary(lines[k]) /\ ~IsHeader(lines[k])
        /\ \E j \in 1..(k - 1) : IsHeader(lines[j])

\* the step leaves the extractor's state and its entries as they are and the
\* loop goes on: no error ends it
LineIgnored ==
    /\ in_section' = in_section
    /\ computed_values' = computed_values
    /\ epc' = "scan"

\* what C12 says of the step that handles the line lines[li + 1]
HandlesLineAsStated ==
    (epc = "scan" /\ li < Len(lines)) =>
        LET line == lines[li + 1]
        IN  /\ (computed_values' # computed_values) =>
                   (IsTriple(line) /\ HeaderSeen /\ ~SummarySeen)
            /\ (~HeaderSeen /\ ~IsHeader(line)) => LineIgnored
            /\ (in_section /\ ~IsHeader(line) /\ ~IsTriple(line)
                    /\ ~IsSummary(line)) => LineIgnored

\* C12: for every sequence of log lines, a triple-pattern line contributes an
\* entry only if it comes after a header for the indicator of interest and not
\* after the summary marker that ends that section; a line seen before the
\* first header, and a line read while collecting that is neither header,
\* triple nor summary marker, changes neither the state nor the entries and
\* raises no error.
C12_OnlySectionTriplesContribute == [][HandlesLineAsStated]_vars

C12_Witness ==
    /\ epc = "returned" /\ Len(lines) = 4 /\ li = 4
    /\ IsTriple(lines[1]) /\ ~IsHeader(lines[1])
    /\ IsHeader(lines[2])
    /\ ~IsHeader(lines[3]) /\ ~IsTriple(lines[3]) /\ ~IsSummary(lines[3])
    /\ IsTriple(lines[4]) /\ ~IsHeader(lines[4]) /\ ~IsSummary(lines[4])
    /\ TripleBar(lines[4]) # TripleBar(lines[1])
    /\ in_section
    /\ DOMAIN computed_values = {TripleBar(lines[4])}
    /\ computed_values[TripleBar(lines[4])] = TripleComputed(lines[4])

====
